---- MODULE Spec2Model ----
(***************************************************************************)
(* Model of the tool-calling analysis loop of be-my-reply-guy:             *)
(*   - ToolsManager (src/src/utils/tools_manager.py): the tool registry,   *)
(*     an insertion-ordered dict from tool name to Tool;                   *)
(*   - register_all_tools and the four tool implementations                *)
(*     (src/src/utils/tools_registry.py);                                  *)
(*   - TweetAnalyzerWithToolsAgent.process                                 *)
(*     (src/src/agents/tweet_analyzer_with_tools_agent.py): the loop that  *)
(*     calls the completion service, dispatches the requested tool calls   *)
(*     and appends their results to the conversation.                      *)
(* The completion service and the hosted endpoints behind the tools are    *)
(* the environment: their answers are chosen nondeterministically from     *)
(* small sets.                                                             *)
(***************************************************************************)
EXTENDS Integers, Sequences, FiniteSets, TLC

(***************************************************************************)
(* Bounds of the model.                                                    *)
(***************************************************************************)
\* completion-service calls explored in one run of process
MaxServiceCalls == 3
\* tool-call requests in one assistant turn
MaxBatch == 2
\* tool-call requests the completion service issues over one run
MaxToolCalls == 3
\* tool-call requests the completion service issues to each of two
\* interleaved runs
MaxInterleavedToolCalls == 2
\* register_tool calls made on a ToolsManager used on its own
MaxRegistrations == 3
\* execute_tool calls made on a ToolsManager used on its own
MaxExecutes == 1

(***************************************************************************)
(* Values.                                                                 *)
(***************************************************************************)
\* Python's None, as a return value or a message content
None == "None"

\* the value of a variable that has not been assigned yet
Unset == "Unset"

\* tweet_context arguments of process
Tweets == {"tweet-a", "tweet-b"}

\* texts of plain assistant answers
Contents == {"Hello", "Final"}

\* serialized argument payloads the completion service sends
ArgsQueryX == "{\"query\":\"x\"}"
ArgsNotJson == "{\"query\":"
ArgsArray == "[1]"
ArgsUrlY == "{\"url\":\"y\"}"
Payloads == {ArgsQueryX, ArgsNotJson, ArgsArray}

\* a tool name register_all_tools never registers
UnknownTool == "unknown_tool"

\* the (name, arguments) pairs the completion service puts in its requests:
\* two registered names and the unknown one, each with a payload that parses
\* and one that does not, and a registered name with a payload that parses
\* to a list
Requests ==
  ({"search_internet", "analyze_video", UnknownTool} \X {ArgsQueryX, ArgsNotJson})
    \cup {<<"search_internet", ArgsArray>>}

(***************************************************************************)
(* Exceptions. An outcome is what a call produces: a returned value or a   *)
(* raised exception with its class and the place that raised it; invoked   *)
(* says whether a tool implementation was entered, and by names it.        *)
(***************************************************************************)
Returned(v, inv) ==
  [raised |-> FALSE, exc |-> None, origin |-> None, value |-> v, invoked |-> inv,
   by |-> None]

Raised(cls, where, inv) ==
  [raised |-> TRUE, exc |-> cls, origin |-> where, value |-> None, invoked |-> inv,
   by |-> None]

\* the outcome of a call that entered the implementation impl
EnteredBy(impl, outcome) == [outcome EXCEPT !.by = impl]

\* IsValueError with JSONDecodeError taken for a class of its own, not a
\* subclass of ValueError
IsValueError_ExactClass(cls) == cls = "ValueError"

\* the classes `except ValueError` catches: json.JSONDecodeError is a
\* subclass of ValueError; KeyError, TypeError and the client's APIError
\* are not
IsValueError(cls) == cls \in {"ValueError", "JSONDecodeError"}

(***************************************************************************)
(* The registry: ToolsManager.tools, a dict, which keeps insertion order.  *)
(* It is a sequence of Tool records with pairwise distinct names.          *)
(***************************************************************************)
\* dataclass Tool; parameters is reduced to the schema's one required key,
\* implementation is the name of the registered function
Tool(name, description, required, implementation) ==
  [name |-> name, description |-> description,
   parameters |-> required, implementation |-> implementation]

\* ToolsManager.__init__: self.tools = {}
EmptyRegistry == << >>

\* name in self.tools
HasTool(reg, name) == \E i \in 1..Len(reg) : reg[i].name = name

\* self.tools[name]
LookupTool(reg, name) ==
  reg[CHOOSE i \in 1..Len(reg) : reg[i].name = name]

\* register_tool with the old entry deleted before the assignment
\* (self.tools.pop(tool.name, None); self.tools[tool.name] = tool): the
\* entry registered again goes last
register_tool_MoveToEnd(reg, tool) ==
  Append(SelectSeq(reg, LAMBDA t : t.name # tool.name), tool)

\* register_tool as self.tools.setdefault(tool.name, tool): the first
\* descriptor registered under a name stays
register_tool_KeepFirst(reg, tool) ==
  IF HasTool(reg, tool.name) THEN reg ELSE Append(reg, tool)

\* ToolsManager.register_tool: self.tools[tool.name] = tool. Assigning to a
\* key the dict holds replaces the value in place; a new key goes last.
register_tool(reg, tool) ==
  IF HasTool(reg, tool.name)
  THEN [i \in 1..Len(reg) |-> IF reg[i].name = tool.name THEN tool ELSE reg[i]]
  ELSE Append(reg, tool)

\* get_tool_definitions walking the dict backwards
\* (reversed(self.tools.values()))
get_tool_definitions_Reversed(reg) ==
  [i \in 1..Len(reg) |->
     [type |-> "function",
      function |-> [name |-> reg[Len(reg) + 1 - i].name,
                    description |-> reg[Len(reg) + 1 - i].description,
                    parameters |-> reg[Len(reg) + 1 - i].parameters]]]

\* ToolsManager.get_tool_definitions: one definition per entry, in the
\* order of self.tools.values()
get_tool_definitions(reg) ==
  [i \in 1..Len(reg) |->
     [type |-> "function",
      function |-> [name |-> reg[i].name,
                    description |-> reg[i].description,
                    parameters |-> reg[i].parameters]]]

\* register_all_tools: the four registrations, in source order
register_all_tools(reg) ==
  LET r1 == register_tool(reg,
              Tool("search_internet", "Search the internet for information",
                   "query", "search_internet"))
      r2 == register_tool(r1,
              Tool("analyze_image", "Analyze an image from a given URL",
                   "image_url", "analyze_image"))
      r3 == register_tool(r2,
              Tool("summarize_webpage", "Generate a summary of a webpage's content",
                   "url", "summarize_webpage"))
  IN  register_tool(r3,
              Tool("analyze_video",
                   "Analyze a video by extracting and analyzing key frames",
                   "video_url", "analyze_video"))

(***************************************************************************)
(* json.loads on the payloads of the model. A parsed value is an object    *)
(* (a set of key/value items) or an array.                                 *)
(***************************************************************************)
json_loads(s) ==
  CASE s = ArgsQueryX ->
         Returned([kind |-> "object", items |-> {<<"query", "x">>}], FALSE)
    [] s = ArgsArray ->
         Returned([kind |-> "array", items |-> {<<"0", "1">>}], FALSE)
    [] s = ArgsUrlY ->
         Returned([kind |-> "object", items |-> {<<"url", "y">>}], FALSE)
    [] OTHER -> Raised("JSONDecodeError", "arguments", FALSE)

(***************************************************************************)
(* The tool implementations of tools_registry.py. Each one constructs its  *)
(* agent, reads one key of params and returns agent.process(value).        *)
(***************************************************************************)
\* the key an implementation reads from params
ParamKey(impl) ==
  CASE impl = "search_internet" -> "query"
    [] impl = "analyze_image" -> "image_url"
    [] impl = "summarize_webpage" -> "url"
    [] impl = "analyze_video" -> "video_url"

\* the agent's process: it catches every exception of its own work and
\* returns a text; the text is the hosted endpoint's answer
AgentProcess(impl, arg) ==
  IF impl = "search_internet" /\ arg = "x" THEN "result-x"
  ELSE IF impl = "summarize_webpage" /\ arg = "y" THEN "summary-y"
  ELSE "Error processing request"

\* implementation(params): Agent.__init__ raises ValueError when no API key
\* is given or set in the environment; params[key] raises TypeError on a
\* list and KeyError on a missing key
CallImplementation(impl, params, apiKeySet) ==
  EnteredBy(impl,
    IF ~apiKeySet THEN Raised("ValueError", "implementation", TRUE)
    ELSE IF params.kind # "object" THEN Raised("TypeError", "implementation", TRUE)
    ELSE IF ~(\E it \in params.items : it[1] = ParamKey(impl))
         THEN Raised("KeyError", "implementation", TRUE)
    ELSE LET it == CHOOSE it \in params.items : it[1] = ParamKey(impl)
         IN  Returned(AgentProcess(impl, it[2]), TRUE))

\* execute_tool with json.loads(arguments) moved before the lookup of name
execute_tool_ParseFirst(reg, name, arguments, apiKeySet) ==
  LET parsed_args == json_loads(arguments)
  IN  IF parsed_args.raised THEN parsed_args
      ELSE IF ~HasTool(reg, name) THEN Raised("ValueError", "unknown_tool", FALSE)
      ELSE CallImplementation(LookupTool(reg, name).implementation,
                              parsed_args.value, apiKeySet)

\* execute_tool invoking the implementation of the first entry of the dict
\* (next(iter(self.tools.values()))) in place of self.tools[name]
execute_tool_FirstEntry(reg, name, arguments, apiKeySet) ==
  IF ~HasTool(reg, name) THEN Raised("ValueError", "unknown_tool", FALSE)
  ELSE LET parsed_args == json_loads(arguments)
       IN  IF parsed_args.raised THEN parsed_args
           ELSE CallImplementation(reg[1].implementation,
                                   parsed_args.value, apiKeySet)

\* execute_tool with an unparseable payload replaced by an empty mapping
\* (`except json.JSONDecodeError: parsed_args = {}`)
execute_tool_LenientParse(reg, name, arguments, apiKeySet) ==
  IF ~HasTool(reg, name) THEN Raised("ValueError", "unknown_tool", FALSE)
  ELSE LET parsed_args == json_loads(arguments)
       IN  CallImplementation(LookupTool(reg, name).implementation,
                              IF parsed_args.raised
                              THEN [kind |-> "object", items |-> {}]
                              ELSE parsed_args.value,
                              apiKeySet)

\* execute_tool with the unknown-tool error returned as the tool's result
\* (`return f"Unknown tool: {name}"` in place of the raise of line 43)
execute_tool_ErrorAsResult(reg, name, arguments, apiKeySet) ==
  IF ~HasTool(reg, name) THEN Returned("Unknown tool", FALSE)
  ELSE LET parsed_args == json_loads(arguments)
       IN  IF parsed_args.raised THEN parsed_args
           ELSE CallImplementation(LookupTool(reg, name).implementation,
                                   parsed_args.value, apiKeySet)

\* ToolsManager.execute_tool: the value it returns or the exception it raises
execute_tool(reg, name, arguments, apiKeySet) ==
  IF ~HasTool(reg, name) THEN Raised("ValueError", "unknown_tool", FALSE)
  ELSE LET parsed_args == json_loads(arguments)
       IN  IF parsed_args.raised THEN parsed_args
           ELSE CallImplementation(LookupTool(reg, name).implementation,
                                   parsed_args.value, apiKeySet)

\* RegistryAfterExecute with the executed entry popped from the dict
\* (self.tools.pop(name) in place of self.tools[name])
RegistryAfterExecute_Pop(reg, name) ==
  SelectSeq(reg, LAMBDA t : t.name # name)

\* self.tools after execute_tool(name, ...): the method reads the dict with
\* `in` and a subscript, and assigns nothing
RegistryAfterExecute(reg, name) == reg

(***************************************************************************)
(* The completion service's answers (client.chat.completions.create).      *)
(***************************************************************************)
\* a tool-call request of an assistant turn: tool_call.id,
\* tool_call.function.name, tool_call.function.arguments
ToolCall(id, name, arguments) ==
  [id |-> id, function |-> [name |-> name, arguments |-> arguments]]

\* response_message.tool_calls is None, or a list of requests
NoToolCalls == [none |-> TRUE, calls |-> << >>]
ToolCalls(calls) == [none |-> FALSE, calls |-> calls]

\* the outcome of one create call: it raised, or it returned a message
ServiceError ==
  [raised |-> TRUE, content |-> None, tool_calls |-> NoToolCalls]
ServiceMessage(content, tool_calls) ==
  [raised |-> FALSE, content |-> content, tool_calls |-> tool_calls]

\* the assistant turns with n requests; the service gives every request of
\* a run an id of its own: FirstId, FirstId + 1, ...
ToolResponses(n, FirstId) ==
  { ServiceMessage(None,
      ToolCalls([j \in 1..n |-> ToolCall(FirstId + j - 1, f[j][1], f[j][2])])) :
    f \in [1..n -> Requests] }

\* the plain answers: tool_calls absent or an empty list
TextResponses ==
  { ServiceMessage(c, tc) : c \in Contents, tc \in {NoToolCalls, ToolCalls(<< >>)} }

(***************************************************************************)
(* State.                                                                  *)
(***************************************************************************)
VARIABLES
  tools,         \* self.tools_manager.tools
  keySet,        \* whether OPENAI_API_KEY is set in the environment
  pc,            \* where process stands
  toolDefs,      \* tools, the definitions passed to every create call
  messages,      \* messages, the conversation
  batch,         \* response_message.tool_calls of the turn being dispatched
  idx,           \* position of the for loop in batch
  returned,      \* the value process returned
  caught,        \* the exception the outer except clause caught
  serviceCalls,  \* create calls made by this run
  toolExecs,     \* tool implementations entered by this run
  issued,        \* tool-call requests the service has issued to this run
  sent,          \* the messages argument of every create call, in order
  responses,     \* the outcome of every create call, in order
  executed,      \* every execute_tool call with its outcome, in order
  regLog,        \* the argument of every register_tool call, in order
  listed,        \* the value get_tool_definitions returned when called last
                 \* since the latest register_tool call, as a sequence of one
                 \* element, empty if it was not called
  rerun,         \* whether an earlier call of process on this agent has returned
  other,         \* the locals and histories of a second call of process on the
                 \* same agent, while that call is not the one taking steps
  current        \* which of the two calls the variables above belong to

vars == <<tools, keySet, pc, toolDefs, messages, batch, idx, returned, caught,
          serviceCalls, toolExecs, issued, sent, responses, executed, regLog,
          listed, rerun, other, current>>

NoException == [exc |-> None, origin |-> None]

\* the locals and histories of a call of process that has not started
IdleRun ==
  [pc |-> "IDLE", toolDefs |-> << >>, messages |-> << >>, batch |-> << >>,
   idx |-> 0, returned |-> Unset, caught |-> NoException, serviceCalls |-> 0,
   toolExecs |-> 0, issued |-> 0, sent |-> << >>, responses |-> << >>,
   executed |-> << >>]

\* TweetAnalyzerWithToolsAgent.__init__: a new ToolsManager filled by
\* register_all_tools; process has not been called
Init ==
  /\ tools = register_all_tools(EmptyRegistry)
  /\ keySet \in BOOLEAN
  /\ pc = "IDLE"
  /\ toolDefs = << >>
  /\ messages = << >>
  /\ batch = << >>
  /\ idx = 0
  /\ returned = Unset
  /\ caught = NoException
  /\ serviceCalls = 0
  /\ toolExecs = 0
  /\ issued = 0
  /\ sent = << >>
  /\ responses = << >>
  /\ executed = << >>
  /\ regLog = register_all_tools(EmptyRegistry)
  /\ listed = << >>
  /\ rerun = FALSE
  /\ other = IdleRun
  /\ current = 1

(***************************************************************************)
(* process, lines 59-66: the tool definitions and the seeded conversation. *)
(***************************************************************************)
SystemPrompt == "BASE_SYSTEM_PROMPT"

SeedMessages(tweet_context) ==
  << [role |-> "system", content |-> SystemPrompt],
     [role |-> "user", content |-> tweet_context] >>

\* NewConversation with the conversation kept on the agent between calls
\* (self.messages.extend(...) in place of the local list of lines 63-66)
NewConversation_KeptOnAgent(old, tweet_context) ==
  old \o SeedMessages(tweet_context)

\* lines 63-66: messages is a local variable bound to a new list at every
\* call; old is the conversation of the call before, if there was one
NewConversation(old, tweet_context) == SeedMessages(tweet_context)

ProcessStart ==
  /\ pc = "IDLE"
  /\ \E tweet_context \in Tweets :
       messages' = NewConversation(messages, tweet_context)
  /\ toolDefs' = get_tool_definitions(tools)
  /\ listed' = <<get_tool_definitions(tools)>>
  /\ pc' = "AWAITING_MODEL"
  /\ UNCHANGED <<tools, keySet, batch, idx, returned, caught, serviceCalls,
                 toolExecs, issued, sent, responses, executed, regLog, rerun,
                 other, current>>

(***************************************************************************)
(* One iteration of `while True`, lines 69-84: the create call and the     *)
(* branch on its answer.                                                   *)
(***************************************************************************)
\* AppendMessage as a conversation trimmed to its last four messages
AppendMessage_KeepLastFour(msgs, m) ==
  LET all == Append(msgs, m)
  IN  IF Len(all) <= 4 THEN all ELSE SubSeq(all, Len(all) - 3, Len(all))

\* messages.append(m)
AppendMessage(msgs, m) == Append(msgs, m)

\* HasToolCalls as `response_message.tool_calls is not None`
HasToolCalls_IsNotNone(tool_calls) == ~tool_calls.none

\* `not response_message.tool_calls` is false: the list is there and not empty
HasToolCalls(tool_calls) == ~tool_calls.none /\ Len(tool_calls.calls) > 0

\* messages.append(response_message)
AssistantMessage(response) ==
  [role |-> "assistant", content |-> response.content,
   tool_calls |-> response.tool_calls.calls]

\* ReturnNone as a handler that logs the exception and lets the while loop
\* go on to another create call
ReturnNone_Retry(exc, origin) ==
  /\ caught' = [exc |-> exc, origin |-> origin]
  /\ returned' = returned
  /\ pc' = "AWAITING_MODEL"

\* lines 101-103: the outer except clause logs the exception and returns None
ReturnNone(exc, origin) ==
  /\ caught' = [exc |-> exc, origin |-> origin]
  /\ returned' = None
  /\ pc' = "FAILED"

\* ReturnContent with the content of the last message of the conversation
\* (messages[-1]) in place of the response's
ReturnContent_LastMessage(response) ==
  /\ returned' = messages[Len(messages)].content
  /\ pc' = "DONE"
  /\ caught' = caught

\* ReturnContent with the answer recorded and the while loop not left
\* (the `return` of line 82 replaced by an assignment)
ReturnContent_NoReturn(response) ==
  /\ returned' = response.content
  /\ pc' = "AWAITING_MODEL"
  /\ caught' = caught

\* line 82: return response_message.content
ReturnContent(response) ==
  /\ returned' = response.content
  /\ pc' = "DONE"
  /\ caught' = caught

\* NextPc with the for loop left after its first iteration
NextPc_BreakAfterFirst(i, calls) ==
  IF i < 1 /\ i < Len(calls) THEN "DISPATCHING_TOOLS" ELSE "AWAITING_MODEL"

\* NextPc with the for loop stopping one request short
\* (range(len(tool_calls) - 1))
NextPc_SkipLast(i, calls) ==
  IF i + 1 < Len(calls) THEN "DISPATCHING_TOOLS" ELSE "AWAITING_MODEL"

\* the for loop takes the request after position i; after the last one the
\* while loop starts over with the create call
NextPc(i, calls) == IF i < Len(calls) THEN "DISPATCHING_TOOLS" ELSE "AWAITING_MODEL"

CallCompletionService(response) ==
  /\ pc = "AWAITING_MODEL"
  /\ serviceCalls < MaxServiceCalls
  /\ serviceCalls' = serviceCalls + 1
  /\ sent' = Append(sent, messages)
  /\ responses' = Append(responses, response)
  /\ issued' = issued + Len(response.tool_calls.calls)
  /\ IF response.raised
     THEN /\ ReturnNone("APIError", "completion_service")
          /\ UNCHANGED <<messages, batch, idx>>
     ELSE IF ~HasToolCalls(response.tool_calls)
     THEN /\ ReturnContent(response)
          /\ UNCHANGED <<messages, batch, idx>>
     ELSE /\ messages' = AppendMessage(messages, AssistantMessage(response))
          /\ batch' = response.tool_calls.calls
          /\ idx' = 1
          /\ pc' = NextPc(0, response.tool_calls.calls)
          /\ UNCHANGED <<returned, caught>>
  /\ UNCHANGED <<tools, keySet, toolDefs, toolExecs, executed, regLog, listed,
                 rerun, other, current>>

ServiceRaises == CallCompletionService(ServiceError)

ServiceAnswersText == \E response \in TextResponses : CallCompletionService(response)

ServiceRequestsTools ==
  \E n \in 1..MaxBatch :
    /\ issued + n <= MaxToolCalls
    /\ \E response \in ToolResponses(n, issued + 1) : CallCompletionService(response)

(***************************************************************************)
(* One iteration of the for loop, lines 85-99.                             *)
(***************************************************************************)
\* ToolMessage with the id of the first request of the batch
\* (response_message.tool_calls[0].id) in place of tool_call.id
ToolMessage_FirstCallId(tool_call, result) ==
  [role |-> "tool", tool_call_id |-> batch[1].id,
   name |-> tool_call.function.name, content |-> result]

\* ToolMessage with the request's arguments as content in place of result
ToolMessage_EchoArguments(tool_call, result) ==
  [role |-> "tool", tool_call_id |-> tool_call.id,
   name |-> tool_call.function.name, content |-> tool_call.function.arguments]

\* lines 92-97: the tool-result message
ToolMessage(tool_call, result) ==
  [role |-> "tool", tool_call_id |-> tool_call.id,
   name |-> tool_call.function.name, content |-> result]

\* Absorbed with `except json.JSONDecodeError` in place of `except ValueError`
Absorbed_DecodeErrorOnly(outcome) == outcome.exc = "JSONDecodeError"

\* Absorbed with `except Exception` in place of `except ValueError`
Absorbed_AnyException(outcome) == outcome.raised

\* line 98: `except ValueError` around the execute_tool call and the append
Absorbed(outcome) == IsValueError(outcome.exc)

\* CurrentCall with the batch walked backwards
\* (for tool_call in reversed(response_message.tool_calls))
CurrentCall_Reversed(calls, i) == calls[Len(calls) + 1 - i]

\* line 85: the request the i-th iteration of the for loop takes
CurrentCall(calls, i) == calls[i]

DispatchToolCall ==
  /\ pc = "DISPATCHING_TOOLS"
  /\ idx \in 1..Len(batch)
  /\ LET tool_call == CurrentCall(batch, idx)
         outcome == execute_tool(tools, tool_call.function.name,
                                 tool_call.function.arguments, keySet)
     IN  /\ toolExecs' = toolExecs + (IF outcome.invoked THEN 1 ELSE 0)
         /\ executed' = Append(executed,
                            [id |-> tool_call.id,
                             name |-> tool_call.function.name,
                             arguments |-> tool_call.function.arguments,
                             outcome |-> outcome])
         /\ IF ~outcome.raised
            THEN /\ messages' = AppendMessage(messages,
                                              ToolMessage(tool_call, outcome.value))
                 /\ idx' = idx + 1
                 /\ pc' = NextPc(idx, batch)
                 /\ UNCHANGED <<returned, caught>>
            ELSE IF Absorbed(outcome)
            THEN /\ idx' = idx + 1
                 /\ pc' = NextPc(idx, batch)
                 /\ UNCHANGED <<messages, returned, caught>>
            ELSE /\ ReturnNone(outcome.exc, outcome.origin)
                 /\ UNCHANGED <<messages, idx>>
  /\ tools' = RegistryAfterExecute(tools, CurrentCall(batch, idx).function.name)
  /\ UNCHANGED <<keySet, toolDefs, batch, serviceCalls, issued, sent, responses,
                 regLog, listed, rerun, other, current>>

Next ==
  \/ ProcessStart
  \/ ServiceRaises
  \/ ServiceAnswersText
  \/ ServiceRequestsTools
  \/ DispatchToolCall

Spec == Init /\ [][Next]_vars

(***************************************************************************)
(* process called again on the same agent once the call before it has      *)
(* returned. The new call has its own locals; the histories are those of   *)
(* the current call.                                                       *)
(***************************************************************************)
ProcessAgain ==
  /\ pc \in {"DONE", "FAILED"}
  /\ \E tweet_context \in Tweets :
       messages' = NewConversation(messages, tweet_context)
  /\ toolDefs' = get_tool_definitions(tools)
  /\ listed' = <<get_tool_definitions(tools)>>
  /\ pc' = "AWAITING_MODEL"
  /\ batch' = << >>
  /\ idx' = 0
  /\ returned' = Unset
  /\ caught' = NoException
  /\ serviceCalls' = 0
  /\ toolExecs' = 0
  /\ issued' = 0
  /\ sent' = << >>
  /\ responses' = << >>
  /\ executed' = << >>
  /\ rerun' = TRUE
  /\ UNCHANGED <<tools, keySet, regLog, other, current>>

NextRuns ==
  \/ Next
  \/ ProcessAgain

SpecRuns == Init /\ [][NextRuns]_vars

(***************************************************************************)
(* Two calls of process on the same agent, interleaved: two threads, each  *)
(* with its own call frame, sharing the agent and its registry. The        *)
(* variables hold the frame of the call that takes steps; SwitchRun hands  *)
(* the processor to the other call.                                        *)
(***************************************************************************)
\* the frame of the call that takes steps
ThisRun ==
  [pc |-> pc, toolDefs |-> toolDefs, messages |-> messages, batch |-> batch,
   idx |-> idx, returned |-> returned, caught |-> caught,
   serviceCalls |-> serviceCalls, toolExecs |-> toolExecs, issued |-> issued,
   sent |-> sent, responses |-> responses, executed |-> executed]

\* LocalConversation with the conversation kept in an attribute of the agent
\* (self.messages): the call that resumes finds the list as the other call
\* left it
LocalConversation_OnAgent(own, agents) == agents

\* lines 63-66: messages is a local of the call frame; the call that resumes
\* finds its own list, whatever the other call did meanwhile
LocalConversation(own, agents) == own

SwitchRun ==
  /\ other' = ThisRun
  /\ pc' = other.pc
  /\ toolDefs' = other.toolDefs
  /\ messages' = LocalConversation(other.messages, messages)
  /\ batch' = other.batch
  /\ idx' = other.idx
  /\ returned' = other.returned
  /\ caught' = other.caught
  /\ serviceCalls' = other.serviceCalls
  /\ toolExecs' = other.toolExecs
  /\ issued' = other.issued
  /\ sent' = other.sent
  /\ responses' = other.responses
  /\ executed' = other.executed
  /\ current' = 3 - current
  /\ UNCHANGED <<tools, keySet, regLog, listed, rerun>>

\* each call is given a tweet of its own
TweetOf(run) == IF run = 1 THEN "tweet-a" ELSE "tweet-b"

StartRun ==
  /\ ProcessStart
  /\ messages'[Len(messages')].content = TweetOf(current)

\* the requests the service sends to the interleaved calls: one whose
\* implementation returns a value and one whose implementation raises
\* KeyError (both raise ValueError without an API key)
InterleavedRequests ==
  {<<"search_internet", ArgsQueryX>>, <<"analyze_video", ArgsQueryX>>}

\* the service gives every request an id of its own, across the two calls
FirstIdOf(run, n) == (run - 1) * MaxInterleavedToolCalls + n + 1

InterleavedToolResponses(n, FirstId) ==
  { ServiceMessage(None,
      ToolCalls([j \in 1..n |-> ToolCall(FirstId + j - 1, f[j][1], f[j][2])])) :
    f \in [1..n -> InterleavedRequests] }

InterleavedServiceRaises == CallCompletionService(ServiceError)

InterleavedAnswersText ==
  CallCompletionService(ServiceMessage("Final", NoToolCalls))

InterleavedRequestsTools ==
  \E n \in 1..MaxBatch :
    /\ issued + n <= MaxInterleavedToolCalls
    /\ \E response \in InterleavedToolResponses(n, FirstIdOf(current, issued)) :
         CallCompletionService(response)

NextInterleaved ==
  \/ StartRun
  \/ InterleavedServiceRaises
  \/ InterleavedAnswersText
  \/ InterleavedRequestsTools
  \/ DispatchToolCall
  \/ SwitchRun

SpecInterleaved == Init /\ [][NextInterleaved]_vars

(***************************************************************************)
(* A ToolsManager used on its own: register_tool, get_tool_definitions and *)
(* execute_tool called in any order on a registry that starts empty. The   *)
(* variables of process keep their initial values.                         *)
(***************************************************************************)
\* the descriptors passed to register_tool: two of register_all_tools, and
\* a second descriptor for the name search_internet with another
\* description, parameter and implementation
RegistryTools ==
  { Tool("search_internet", "Search the internet for information",
         "query", "search_internet"),
    Tool("search_internet", "Search the internet, by page", "url",
         "summarize_webpage"),
    Tool("summarize_webpage", "Generate a summary of a webpage's content",
         "url", "summarize_webpage") }

\* the names and payloads passed to execute_tool
RegistryNames == {"search_internet", "summarize_webpage", UnknownTool}
RegistryPayloads == {ArgsQueryX, ArgsUrlY, ArgsNotJson}

\* ToolsManager(): an empty registry, nothing called yet
InitRegistry ==
  /\ tools = EmptyRegistry
  /\ keySet \in BOOLEAN
  /\ pc = "REGISTRY"
  /\ toolDefs = << >>
  /\ messages = << >>
  /\ batch = << >>
  /\ idx = 0
  /\ returned = Unset
  /\ caught = NoException
  /\ serviceCalls = 0
  /\ toolExecs = 0
  /\ issued = 0
  /\ sent = << >>
  /\ responses = << >>
  /\ executed = << >>
  /\ regLog = << >>
  /\ listed = << >>
  /\ rerun = FALSE
  /\ other = IdleRun
  /\ current = 1

\* tools_manager.register_tool(tool)
RegisterTool ==
  /\ pc = "REGISTRY"
  /\ Len(regLog) < MaxRegistrations
  /\ \E tool \in RegistryTools :
       /\ tools' = register_tool(tools, tool)
       /\ regLog' = Append(regLog, tool)
  /\ listed' = << >>
  /\ UNCHANGED <<keySet, pc, toolDefs, messages, batch, idx, returned, caught,
                 serviceCalls, toolExecs, issued, sent, responses, executed,
                 rerun, other, current>>

\* tools_manager.get_tool_definitions()
ListTools ==
  /\ pc = "REGISTRY"
  /\ listed' = <<get_tool_definitions(tools)>>
  /\ UNCHANGED <<tools, keySet, pc, toolDefs, messages, batch, idx, returned,
                 caught, serviceCalls, toolExecs, issued, sent, responses,
                 executed, regLog, rerun,
                 other, current>>

\* tools_manager.execute_tool(name, arguments); the call has no request id
ExecuteTool ==
  /\ pc = "REGISTRY"
  /\ Len(executed) < MaxExecutes
  /\ \E name \in RegistryNames, arguments \in RegistryPayloads :
       LET outcome == execute_tool(tools, name, arguments, keySet)
       IN  /\ executed' = Append(executed,
                              [id |-> 0, name |-> name, arguments |-> arguments,
                               outcome |-> outcome])
           /\ toolExecs' = toolExecs + (IF outcome.invoked THEN 1 ELSE 0)
           /\ tools' = RegistryAfterExecute(tools, name)
  /\ UNCHANGED <<keySet, pc, toolDefs, messages, batch, idx, returned, caught,
                 serviceCalls, issued, sent, responses, regLog, listed, rerun,
                 other, current>>

NextRegistry ==
  \/ RegisterTool
  \/ ListTools
  \/ ExecuteTool

SpecRegistry == InitRegistry /\ [][NextRegistry]_vars

(***************************************************************************)
(* Reading the conversation and the histories.                             *)
(***************************************************************************)
IsToolResult(m) == m.role = "tool"
IsAssistant(m) == m.role = "assistant"

\* the position of the nearest assistant message before position i, 0 if none
NearestAssistant(conv, i) ==
  IF \E j \in 1..(i - 1) : IsAssistant(conv[j])
  THEN CHOOSE j \in 1..(i - 1) :
         /\ IsAssistant(conv[j])
         /\ \A k \in (j + 1)..(i - 1) : ~IsAssistant(conv[k])
  ELSE 0

\* the position of the last assistant message of conv, 0 if none
LastAssistant(conv) == NearestAssistant(conv, Len(conv) + 1)

\* conv holds a tool-result message with this id after position a
HasResultAfter(conv, a, id) ==
  \E i \in (a + 1)..Len(conv) : IsToolResult(conv[i]) /\ conv[i].tool_call_id = id

\* execute_tool was called for the request with this id, and it returned
WasExecuted(id) == \E e \in 1..Len(executed) : executed[e].id = id
HasReturned(id) ==
  \E e \in 1..Len(executed) : executed[e].id = id /\ ~executed[e].outcome.raised

(***************************************************************************)
(* C1. An exception raised by a registered tool's implementation while a   *)
(* batch is dispatched never ends the run in failure: the outer except     *)
(* clause never catches an exception that came out of an implementation.   *)
(* The code absorbs only ValueError: TLC finds this violated.              *)
(***************************************************************************)
C1_ImplementationErrorsAbsorbed ==
  ~(pc = "FAILED" /\ caught.origin = "implementation")

(***************************************************************************)
(* C2. Every tool-result message of the conversation carries the id and    *)
(* the name of a request of the nearest preceding assistant message, and   *)
(* no two tool-result messages carry the same id.                          *)
(***************************************************************************)
C2_ResultsCorrelateWithRequests ==
  /\ \A i \in 1..Len(messages) :
       IsToolResult(messages[i]) =>
         LET a == NearestAssistant(messages, i)
         IN  /\ a > 0
             /\ \E k \in 1..Len(messages[a].tool_calls) :
                  /\ messages[a].tool_calls[k].id = messages[i].tool_call_id
                  /\ messages[a].tool_calls[k].function.name = messages[i].name
  /\ \A i, j \in 1..Len(messages) :
       (i < j /\ IsToolResult(messages[i]) /\ IsToolResult(messages[j]))
         => messages[i].tool_call_id # messages[j].tool_call_id

\* two tool-result messages that answer different assistant turns
C2_Witness ==
  \E i, j \in 1..Len(messages) :
    /\ i < j
    /\ IsToolResult(messages[i])
    /\ IsToolResult(messages[j])
    /\ NearestAssistant(messages, i) # NearestAssistant(messages, j)

(***************************************************************************)
(* C3. As claimed: at the second and every later create call, the          *)
(* conversation passed holds a tool-result message for every request of    *)
(* its last assistant turn. The code drops the requests whose execute_tool *)
(* call raised a ValueError: TLC finds this violated.                      *)
(***************************************************************************)
C3_EveryRequestHasResult ==
  \A n \in 2..Len(sent) :
    LET conv == sent[n]
        a == LastAssistant(conv)
    IN  /\ a > 0
        /\ \A k \in 1..Len(conv[a].tool_calls) :
             HasResultAfter(conv, a, conv[a].tool_calls[k].id)

(***************************************************************************)
(* C3 as amended. At the second and every later create call, every request *)
(* of the last assistant turn of the conversation passed has been          *)
(* dispatched, and the conversation holds a tool-result message with the   *)
(* request's id exactly when its execute_tool call returned a value.       *)
(***************************************************************************)
C3_ReturnedRequestsHaveResult ==
  \A n \in 2..Len(sent) :
    LET conv == sent[n]
        a == LastAssistant(conv)
    IN  /\ a > 0
        /\ \A k \in 1..Len(conv[a].tool_calls) :
             LET id == conv[a].tool_calls[k].id
             IN  /\ WasExecuted(id)
                 /\ HasResultAfter(conv, a, id) <=> HasReturned(id)

\* a second create call whose last assistant turn has a request with a
\* result and a request without one
C3_Witness ==
  /\ Len(sent) >= 2
  /\ LET conv == sent[2]
         a == LastAssistant(conv)
     IN  /\ a > 0
         /\ \E k \in 1..Len(conv[a].tool_calls) :
              HasResultAfter(conv, a, conv[a].tool_calls[k].id)
         /\ \E k \in 1..Len(conv[a].tool_calls) :
              ~HasResultAfter(conv, a, conv[a].tool_calls[k].id)

(***************************************************************************)
(* C4. When a create call raises, at the first call or a later one, the    *)
(* run ends there: process has returned None, the call that raised is the  *)
(* last one made, and from then on no create call is made, no tool is      *)
(* executed and nothing is appended.                                       *)
(***************************************************************************)
ServiceHasRaised == \E n \in 1..Len(responses) : responses[n].raised

C4_ServiceErrorEndsRun ==
  /\ [](\A n \in 1..Len(responses) :
          responses[n].raised =>
            /\ n = Len(responses)
            /\ serviceCalls = n
            /\ pc = "FAILED"
            /\ returned = None
            /\ caught = [exc |-> "APIError", origin |-> "completion_service"])
  /\ [][ServiceHasRaised =>
          UNCHANGED <<serviceCalls, toolExecs, executed, messages, pc, returned>>]_vars

\* a create call that raised after a tool result was gathered
C4_Witness ==
  /\ Len(responses) >= 2
  /\ responses[Len(responses)].raised
  /\ \E i \in 1..Len(messages) : IsToolResult(messages[i])

(***************************************************************************)
(* C5. The loop has an iteration cap: once the completion service has      *)
(* answered MaxServiceCalls calls the run does not stand ready for a       *)
(* further call. The code loops on `while True` and has no cap: TLC finds  *)
(* this violated, whatever the value of MaxServiceCalls.                   *)
(***************************************************************************)
C5_IterationCap ==
  ~(pc = "AWAITING_MODEL" /\ serviceCalls >= MaxServiceCalls)

(***************************************************************************)
(* The cases of a dispatch step and of a create call.                      *)
(***************************************************************************)
\* the for loop is about to dispatch the request at idx
Dispatching == pc = "DISPATCHING_TOOLS" /\ idx \in 1..Len(batch)

\* the request names a tool the registry does not hold
NamesUnknownTool(name) == \A i \in 1..Len(tools) : tools[i].name # name

\* where the run stands once the request at idx is absorbed
AfterAbsorbed ==
  IF idx < Len(batch) THEN "DISPATCHING_TOOLS" ELSE "AWAITING_MODEL"

\* the batch being dispatched, or dispatched last, is the one of the latest
\* create call
BatchIsLatest ==
  /\ Len(responses) > 0
  /\ responses[Len(responses)].tool_calls.calls = batch

\* an assistant turn without tool-call requests: the list absent or empty
PlainAnswer(response) ==
  /\ ~response.raised
  /\ response.tool_calls.none \/ response.tool_calls.calls = << >>

(***************************************************************************)
(* C6. A request that names an unregistered tool does not make process     *)
(* fail: its dispatch enters no implementation, returns nothing from       *)
(* process and moves the for loop to the next request, or, after the last  *)
(* request, back to the create call; the outer except clause never catches *)
(* an unknown-tool error; the requests after it in the batch are executed  *)
(* and the results they return are in the conversation; and once the batch *)
(* is through, the run stands at the next create call or has made it.      *)
(***************************************************************************)
C6_UnknownToolAbsorbed ==
  /\ [](/\ caught.origin # "unknown_tool"
        /\ \A j \in 1..Len(batch) :
             (NamesUnknownTool(batch[j].function.name) /\ j < idx) =>
               /\ \A k \in (j + 1)..Len(batch) :
                    k < idx =>
                      /\ WasExecuted(batch[k].id)
                      /\ HasReturned(batch[k].id) =>
                           HasResultAfter(messages, LastAssistant(messages), batch[k].id)
               /\ (idx > Len(batch) /\ BatchIsLatest) => pc = "AWAITING_MODEL")
  /\ [][(Dispatching /\ NamesUnknownTool(batch[idx].function.name)) =>
          /\ idx' = idx + 1
          /\ pc' = AfterAbsorbed
          /\ UNCHANGED <<returned, caught, toolExecs, batch, serviceCalls>>]_vars

\* a batch whose first request named an unknown tool and whose second
\* request returned a result, which is in the conversation passed to the
\* following create call
C6_Witness ==
  /\ Len(batch) = 2
  /\ NamesUnknownTool(batch[1].function.name)
  /\ HasReturned(batch[2].id)
  /\ Len(sent) >= 2
  /\ HasResultAfter(sent[Len(sent)], LastAssistant(sent[Len(sent)]), batch[2].id)

(***************************************************************************)
(* C7. A request that names a registered tool with a payload that is not   *)
(* JSON: execute_tool raises the decode error and enters no                *)
(* implementation; the dispatch returns nothing from process and moves the *)
(* for loop to the next request, or, after the last request, back to the   *)
(* create call; the outer except clause never catches a decode error.      *)
(***************************************************************************)
C7_MalformedArgumentsAbsorbed ==
  /\ [](/\ caught.origin # "arguments"
        /\ caught.exc # "JSONDecodeError"
        /\ \A e \in 1..Len(executed) :
             (~NamesUnknownTool(executed[e].name) /\ executed[e].arguments = ArgsNotJson) =>
               /\ executed[e].outcome.raised
               /\ executed[e].outcome.exc = "JSONDecodeError"
               /\ ~executed[e].outcome.invoked)
  /\ [][(/\ Dispatching
         /\ ~NamesUnknownTool(batch[idx].function.name)
         /\ batch[idx].function.arguments = ArgsNotJson) =>
          /\ idx' = idx + 1
          /\ pc' = AfterAbsorbed
          /\ UNCHANGED <<returned, caught, toolExecs, batch, serviceCalls, messages>>]_vars

\* a batch whose first request had a payload that is not JSON and whose
\* second request was executed and returned, followed by a create call
C7_Witness ==
  /\ Len(batch) = 2
  /\ ~NamesUnknownTool(batch[1].function.name)
  /\ batch[1].function.arguments = ArgsNotJson
  /\ HasReturned(batch[2].id)
  /\ Len(sent) >= 2
  /\ toolExecs = 1

(***************************************************************************)
(* C8. A plain answer ends the run with its text: whenever a create call   *)
(* has returned an assistant turn without tool-call requests, it is the    *)
(* last call made, the run is DONE and process has returned the text of    *)
(* that turn; a run is DONE only so; and a create call after the first is  *)
(* made only when the latest response held tool-call requests.             *)
(***************************************************************************)
C8_PlainAnswerIsResult ==
  /\ [](/\ \A n \in 1..Len(responses) :
             PlainAnswer(responses[n]) =>
               /\ n = Len(responses)
               /\ serviceCalls = n
               /\ pc = "DONE"
               /\ returned = responses[n].content
        /\ pc = "DONE" =>
             /\ Len(responses) > 0
             /\ PlainAnswer(responses[Len(responses)]))
  /\ [][(serviceCalls' # serviceCalls /\ serviceCalls >= 1) =>
          /\ ~responses[Len(responses)].raised
          /\ ~responses[Len(responses)].tool_calls.none
          /\ responses[Len(responses)].tool_calls.calls # << >>]_vars

\* a plain answer at the third create call, after two turns of tool calls
\* whose invocations returned
C8_Witness ==
  /\ pc = "DONE"
  /\ Len(responses) = 3
  /\ returned = "Final"
  /\ Len(executed) >= 2
  /\ \A e \in 1..Len(executed) : ~executed[e].outcome.raised

(***************************************************************************)
(* C9. When the first response has no tool-call requests, its list absent  *)
(* or empty, process has returned that response's text, exactly one create *)
(* call was made and no tool was executed.                                 *)
(***************************************************************************)
C9_ImmediatePlainAnswer ==
  (Len(responses) >= 1 /\ PlainAnswer(responses[1])) =>
    /\ pc = "DONE"
    /\ returned = responses[1].content
    /\ serviceCalls = 1
    /\ Len(responses) = 1
    /\ Len(messages) = 2
    /\ toolExecs = 0
    /\ executed = << >>

\* scenario A with an empty tool_calls list
C9_Witness ==
  /\ Len(responses) = 1
  /\ responses[1] = ServiceMessage("Hello", ToolCalls(<< >>))
  /\ returned = "Hello"

(***************************************************************************)
(* C10. When the first response requests one call of a registered tool     *)
(* with a payload that parses, the tool returns a value and the second     *)
(* response is a plain answer: process has returned the second response's  *)
(* text, exactly two create calls were made, exactly one tool was          *)
(* executed, and the messages passed to the second create call hold a      *)
(* tool-result message for that request whose content is the value the     *)
(* tool returned.                                                          *)
(***************************************************************************)
C10_OneToolThenAnswer ==
  (/\ Len(responses) >= 2
   /\ ~responses[1].raised
   /\ Len(responses[1].tool_calls.calls) = 1
   /\ ~NamesUnknownTool(responses[1].tool_calls.calls[1].function.name)
   /\ responses[1].tool_calls.calls[1].function.arguments \in {ArgsQueryX, ArgsArray}
   /\ HasReturned(responses[1].tool_calls.calls[1].id)
   /\ PlainAnswer(responses[2])) =>
    /\ pc = "DONE"
    /\ returned = responses[2].content
    /\ serviceCalls = 2
    /\ Len(sent) = 2
    /\ toolExecs = 1
    /\ Len(executed) = 1
    /\ \E i \in 1..Len(sent[2]) :
         /\ IsToolResult(sent[2][i])
         /\ sent[2][i].tool_call_id = responses[1].tool_calls.calls[1].id
         /\ sent[2][i].content = executed[1].outcome.value
    /\ Cardinality({i \in 1..Len(sent[2]) : IsToolResult(sent[2][i])}) = 1

\* scenario B: search_internet with {"query":"x"} returns "result-x", then "Final"
C10_Witness ==
  /\ Len(responses) = 2
  /\ Len(responses[1].tool_calls.calls) = 1
  /\ responses[1].tool_calls.calls[1].function.name = "search_internet"
  /\ responses[1].tool_calls.calls[1].function.arguments = ArgsQueryX
  /\ executed[1].outcome.value = "result-x"
  /\ \E i \in 1..Len(sent[2]) :
       IsToolResult(sent[2][i]) /\ sent[2][i].content = "result-x"
  /\ returned = "Final"

(***************************************************************************)
(* The run's terminal states.                                              *)
(***************************************************************************)
\* process has returned, a final text or None
Terminal == pc \in {"DONE", "FAILED"} \/ returned # Unset

\* C11: DONE and FAILED are terminal. Once the run has returned its final
\* text or has failed, no step makes a completion-service call, executes a
\* tool or appends to the conversation: the call counters, the histories of
\* create and execute_tool calls, the conversation and the returned value
\* stay as they are.
C11_TerminalStatesAreFinal ==
  [][Terminal =>
       UNCHANGED <<serviceCalls, sent, responses, toolExecs, executed, messages,
                   returned, pc>>]_vars

\* a run that failed in the middle of a batch, below the bound on create
\* calls: a request of the batch is left undispatched for good
C11_Witness ==
  /\ pc = "FAILED"
  /\ returned = None
  /\ idx < Len(batch)
  /\ serviceCalls < MaxServiceCalls

(***************************************************************************)
(* Batches and create calls.                                               *)
(***************************************************************************)
\* the requests of the assistant turn appended last to conv
OpenBatch(conv) ==
  LET a == LastAssistant(conv)
  IN  IF a = 0 THEN << >> ELSE conv[a].tool_calls

\* the execute_tool calls made so far for the request with this id
Dispatches(id) == {e \in 1..Len(executed) : executed[e].id = id}

\* every request of the last assistant turn of conv has been dispatched
\* exactly once, and every value execute_tool returned for it stands in conv
\* after that turn, in a tool-result message with the request's id
BatchFullyDispatched(conv) ==
  LET a == LastAssistant(conv)
      calls == OpenBatch(conv)
  IN  \A k \in 1..Len(calls) :
        /\ Cardinality(Dispatches(calls[k].id)) = 1
        /\ \A e \in Dispatches(calls[k].id) :
             ~executed[e].outcome.raised =>
               \E i \in (a + 1)..Len(conv) :
                 /\ IsToolResult(conv[i])
                 /\ conv[i].tool_call_id = calls[k].id
                 /\ conv[i].content = executed[e].outcome.value

\* C12: no completion-service call is made while a batch is partially
\* dispatched. In every step that makes a create call, each request of the
\* assistant turn appended last has been dispatched exactly once and every
\* result obtained for that batch is already in the conversation; while
\* requests are being dispatched no create call is made.
C12_NoCallDuringBatch ==
  [][serviceCalls' # serviceCalls =>
       /\ BatchFullyDispatched(messages)
       /\ sent' = Append(sent, messages)
       /\ pc # "DISPATCHING_TOOLS"]_vars

\* a third create call made after a batch of two requests, one with a
\* result in the conversation
C12_Witness ==
  /\ Len(sent) >= 3
  /\ Len(OpenBatch(sent[3])) = 2
  /\ HasResultAfter(sent[3], LastAssistant(sent[3]), OpenBatch(sent[3])[2].id)

(***************************************************************************)
(* Failed tool calls.                                                      *)
(***************************************************************************)
\* a request that names an unregistered tool, or whose payload json.loads
\* rejects
FailsBeforeInvocation(name, arguments) ==
  NamesUnknownTool(name) \/ arguments = ArgsNotJson

\* conv holds a tool-result message with this id
HasResultFor(conv, id) ==
  \E i \in 1..Len(conv) : IsToolResult(conv[i]) /\ conv[i].tool_call_id = id

\* C13: a tool call that fails with the unknown-tool or the
\* malformed-arguments error appends nothing. The dispatch of such a request
\* leaves the conversation as it was, and no conversation of the run, the
\* current one or one passed to a create call, holds a tool-result message
\* with that request's id.
C13_FailedCallAppendsNothing ==
  /\ [][(Dispatching /\ executed' # executed
            /\ FailsBeforeInvocation(batch[idx].function.name,
                                     batch[idx].function.arguments))
          => messages' = messages]_vars
  /\ [](\A e \in 1..Len(executed) :
          FailsBeforeInvocation(executed[e].name, executed[e].arguments) =>
            /\ ~HasResultFor(messages, executed[e].id)
            /\ \A n \in 1..Len(sent) : ~HasResultFor(sent[n], executed[e].id))

\* a batch with an unknown tool and a malformed payload next to a request
\* that returned, and the create call that follows it
C13_Witness ==
  /\ Len(sent) >= 3
  /\ \E e \in 1..Len(executed) : NamesUnknownTool(executed[e].name)
  /\ \E e \in 1..Len(executed) :
       ~NamesUnknownTool(executed[e].name) /\ executed[e].arguments = ArgsNotJson
  /\ \E e \in 1..Len(executed) : HasResultFor(sent[3], executed[e].id)

(***************************************************************************)
(* execute_tool on the registry.                                           *)
(***************************************************************************)
\* the entry a call has just added to a history
Latest(log) == log[Len(log)]

\* this step is a call of execute_tool
ExecuteStep == Len(executed') = Len(executed) + 1

\* C14: execute_tool on a name the registry does not hold, whatever the
\* registry holds and whether the payload parses or not, raises the
\* unknown-tool ValueError and no other error, enters no implementation and
\* leaves the registry as it was.
C14_UnknownToolError ==
  [][(ExecuteStep /\ NamesUnknownTool(Latest(executed').name)) =>
       /\ Latest(executed').outcome.raised
       /\ Latest(executed').outcome.exc = "ValueError"
       /\ Latest(executed').outcome.origin = "unknown_tool"
       /\ ~Latest(executed').outcome.invoked
       /\ Latest(executed').outcome.by = None
       /\ toolExecs' = toolExecs
       /\ tools' = tools]_vars

\* an unparseable payload sent to a name that a registry of two entries does
\* not hold
C14_Witness ==
  /\ pc = "REGISTRY"
  /\ Len(tools) = 2
  /\ \E e \in 1..Len(executed) :
       /\ NamesUnknownTool(executed[e].name)
       /\ executed[e].arguments = ArgsNotJson
       /\ executed[e].outcome.origin = "unknown_tool"

\* the payloads json.loads accepts, and what they parse to
Parseable(arguments) == arguments \in {ArgsQueryX, ArgsUrlY, ArgsArray}

\* the implementation the registry holds under this name
RegisteredImplementation(name) ==
  LET i == CHOOSE i \in 1..Len(tools) : tools[i].name = name
  IN  tools[i].implementation

\* C15: for a registered name and a payload that parses, execute_tool
\* enters the implementation registered under that name and no other, and
\* its outcome is that implementation's outcome on the parsed arguments,
\* untransformed: the value it returned (or the exception it raised).
C15_ReturnsImplementationValue ==
  [][(ExecuteStep /\ ~NamesUnknownTool(Latest(executed').name)
        /\ Parseable(Latest(executed').arguments)) =>
       LET call == Latest(executed')
           impl == RegisteredImplementation(call.name)
           theirs == CallImplementation(impl, json_loads(call.arguments).value,
                                        keySet)
       IN  /\ call.outcome.invoked
           /\ call.outcome.by = impl
           /\ call.outcome.raised = theirs.raised
           /\ call.outcome.value = theirs.value
           /\ call.outcome.exc = theirs.exc
           /\ toolExecs' = toolExecs + 1]_vars

\* a call for search_internet that returned the value of the implementation
\* registered under that name, which is not the first entry's
C15_Witness ==
  /\ pc = "REGISTRY"
  /\ Len(tools) = 2
  /\ tools[1].name = "summarize_webpage"
  /\ tools[2].implementation = "search_internet"
  /\ \E e \in 1..Len(executed) :
       /\ executed[e].name = "search_internet"
       /\ executed[e].arguments = ArgsQueryX
       /\ ~executed[e].outcome.raised
       /\ executed[e].outcome.value = "result-x"
       /\ executed[e].outcome.by = "search_internet"

(***************************************************************************)
(* register_tool and the listing.                                          *)
(***************************************************************************)
\* the names passed to register_tool so far
RegisteredNames == {regLog[i].name : i \in 1..Len(regLog)}

\* the descriptor passed by the latest register_tool call for this name
LastRegistered(name) ==
  LET i == CHOOSE i \in 1..Len(regLog) :
             /\ regLog[i].name = name
             /\ \A j \in (i + 1)..Len(regLog) : regLog[j].name # name
  IN  regLog[i]

\* the entries the registry holds under this name
EntriesFor(name) == {i \in 1..Len(tools) : tools[i].name = name}

\* C16: registering a descriptor under a name the registry holds replaces
\* the entry and raises nothing: last registration wins. After any sequence
\* of register_tool calls the registry has one entry per distinct name
\* registered, each the descriptor registered last under its name, and
\* execute_tool on a name enters the implementation registered last.
C16_LastRegistrationWins ==
  /\ [](/\ Len(tools) = Cardinality(RegisteredNames)
        /\ \A name \in RegisteredNames :
             /\ Cardinality(EntriesFor(name)) = 1
             /\ \A i \in EntriesFor(name) : tools[i] = LastRegistered(name))
  /\ [][(ExecuteStep /\ Latest(executed').name \in RegisteredNames
           /\ Parseable(Latest(executed').arguments)) =>
          Latest(executed').outcome.by =
            LastRegistered(Latest(executed').name).implementation]_vars

\* search_internet registered twice with different implementations, then
\* executed: the call entered the second one
C16_Witness ==
  /\ pc = "REGISTRY"
  /\ Len(regLog) = 2
  /\ regLog[1].name = "search_internet"
  /\ regLog[2].name = "search_internet"
  /\ regLog[1].implementation # regLog[2].implementation
  /\ Len(tools) = 1
  /\ \E e \in 1..Len(executed) :
       /\ executed[e].name = "search_internet"
       /\ executed[e].outcome.by = regLog[2].implementation

\* the position in regLog of the first register_tool call for this name
FirstRegistration(name) ==
  CHOOSE i \in 1..Len(regLog) :
    /\ regLog[i].name = name
    /\ \A j \in 1..(i - 1) : regLog[j].name # name

\* the definition get_tool_definitions builds from a descriptor
DefinitionOf(tool) ==
  [type |-> "function",
   function |-> [name |-> tool.name, description |-> tool.description,
                 parameters |-> tool.parameters]]

\* C17: after any sequence of register_tool calls, get_tool_definitions
\* returns one definition per registered entry, in the order in which the
\* entries were registered (the order of the register_tool calls that
\* introduced their names), each built from the descriptor the entry holds;
\* a repeated call with no registration in between returns the same
\* sequence, and a call leaves the registry as it was.
C17_ListingInRegistrationOrder ==
  /\ [](listed # << >> =>
          LET defs == listed[1]
          IN  /\ Len(defs) = Cardinality(RegisteredNames)
              /\ \A i \in 1..Len(defs) :
                   /\ defs[i].function.name \in RegisteredNames
                   /\ defs[i] = DefinitionOf(LastRegistered(defs[i].function.name))
              /\ \A i, j \in 1..Len(defs) :
                   i < j => FirstRegistration(defs[i].function.name)
                              < FirstRegistration(defs[j].function.name))
  /\ [][(listed # << >> /\ listed' # << >>) => listed' = listed]_vars
  /\ [][(listed' # listed /\ listed' # << >>) => tools' = tools]_vars

\* a listing of two entries after three registrations, the name registered
\* first listed first
C17_Witness ==
  /\ pc = "REGISTRY"
  /\ Len(regLog) = 3
  /\ regLog[1].name = "summarize_webpage"
  /\ regLog[2].name = "search_internet"
  /\ listed # << >>
  /\ Len(listed[1]) = 2
  /\ listed[1][1].function.name = "summarize_webpage"
  /\ listed[1][2].function.name = "search_internet"

(***************************************************************************)
(* The conversation of a run.                                              *)
(***************************************************************************)
\* conv is the seed of a run: the system prompt, then the user's tweet
IsSeed(conv) ==
  /\ Len(conv) = 2
  /\ conv[1] = [role |-> "system", content |-> SystemPrompt]
  /\ conv[2].role = "user"
  /\ conv[2].content \in Tweets

\* C18: every run of process starts with a conversation of exactly two
\* messages, the system message and then the user message, and the first
\* create call receives exactly that conversation; a run started on an agent
\* that has already completed a run starts with the same two messages and
\* nothing of the earlier run's conversation.
C18_RunStartsFromSeed ==
  /\ []((pc = "AWAITING_MODEL" /\ serviceCalls = 0) => IsSeed(messages))
  /\ [](Len(sent) >= 1 => IsSeed(sent[1]))
  /\ [][(pc \in {"IDLE", "DONE", "FAILED"} /\ pc' # pc) =>
          /\ IsSeed(messages')
          /\ sent' = << >>]_vars
  /\ [][(serviceCalls = 0 /\ serviceCalls' = 1) =>
          IsSeed(messages) /\ sent' = <<messages>>]_vars

\* the first create call of a second run, made after the first run ended
C18_Witness ==
  /\ rerun
  /\ Len(sent) = 1
  /\ IsSeed(sent[1])
  /\ pc = "DISPATCHING_TOOLS"

\* conversation a is an initial segment of conversation b
IsPrefix(a, b) == Len(a) <= Len(b) /\ SubSeq(b, 1, Len(a)) = a

\* C19: the conversation only grows by appending at its end. In every step
\* the conversation before is a prefix of the conversation after, the
\* conversation passed to a create call is a proper extension of the one
\* passed to the call before, and the current conversation extends the one
\* passed last.
C19_ConversationAppendOnly ==
  /\ [][IsPrefix(messages, messages')]_vars
  /\ [](\A n \in 1..(Len(sent) - 1) :
          IsPrefix(sent[n], sent[n + 1]) /\ Len(sent[n]) < Len(sent[n + 1]))
  /\ [](Len(sent) >= 1 => IsPrefix(sent[Len(sent)], messages))

\* three create calls, the third on a conversation of six messages or more
C19_Witness ==
  /\ Len(sent) = 3
  /\ Len(sent[3]) >= 6
  /\ Len(sent[2]) > Len(sent[1])
  /\ \E i \in 1..Len(sent[3]) : IsToolResult(sent[3][i])

(***************************************************************************)
(* The registry during a run.                                              *)
(***************************************************************************)
\* C20: the registry is read-only once the agent is constructed. No step of
\* process, the execute_tool calls of its dispatches included, adds, removes
\* or replaces an entry: the registry stays what the registrations of the
\* constructor made it, and the tool definitions process passes to create,
\* taken once at its start, are the same at every call of the run and are
\* the definitions of the registry's entries.
C20_RegistryReadOnly ==
  /\ [][tools' = tools]_vars
  /\ [](tools = regLog)
  /\ [][pc # "IDLE" => toolDefs' = toolDefs]_vars
  /\ [](pc # "IDLE" =>
          /\ Len(toolDefs) = Len(tools)
          /\ \A i \in 1..Len(tools) : toolDefs[i] = DefinitionOf(tools[i]))

\* a third create call after two tool implementations were entered
C20_Witness ==
  /\ Len(sent) = 3
  /\ toolExecs >= 2
  /\ Len(toolDefs) = 4
  /\ toolDefs[1].function.name = "search_internet"

(***************************************************************************)
(* Exceptions raised by a tool implementation.                             *)
(***************************************************************************)
\* this step dispatched a request and the implementation it entered raised
\* an exception of class cls
ImplementationRaised(cls) ==
  /\ Dispatching
  /\ ExecuteStep
  /\ Latest(executed').id = batch[idx].id
  /\ Latest(executed').outcome.invoked
  /\ Latest(executed').outcome.raised
  /\ Latest(executed').outcome.exc = cls

\* C22: whether an exception raised inside execute_tool is absorbed or ends
\* the run depends on its class alone. A ValueError raised by the
\* implementation (the Agent constructor without an API key) is handled as
\* an unknown tool name is: nothing is appended, the for loop goes on to the
\* next request or the while loop to the next create call, and process has
\* not returned. An exception of another class (KeyError, TypeError) ends
\* the run: process returns None, the requests after it in the batch are
\* never executed, and no create call follows.
C22_ErrorClassDecides ==
  /\ [][ImplementationRaised("ValueError") =>
          /\ messages' = messages
          /\ idx' = idx + 1
          /\ pc' = AfterAbsorbed
          /\ returned' = Unset
          /\ caught' = caught]_vars
  /\ [][(ImplementationRaised("KeyError") \/ ImplementationRaised("TypeError")) =>
          /\ messages' = messages
          /\ pc' = "FAILED"
          /\ returned' = None
          /\ caught'.exc = Latest(executed').outcome.exc
          /\ idx' = idx]_vars
  /\ [](\A e \in 1..Len(executed) :
          (executed[e].outcome.raised
             /\ executed[e].outcome.exc \in {"KeyError", "TypeError"}) =>
            /\ e = Len(executed)
            /\ pc = "FAILED"
            /\ returned = None
            /\ Len(sent) = serviceCalls
            /\ BatchIsLatest
            /\ \A k \in (idx + 1)..Len(batch) : ~WasExecuted(batch[k].id))

\* without an API key the implementation's ValueError was absorbed for the
\* first request of a batch, the second request was dispatched and the next
\* create call was made
C22_Witness ==
  /\ ~keySet
  /\ Len(sent) >= 2
  /\ Len(executed) >= 2
  /\ executed[1].outcome.invoked
  /\ executed[1].outcome.exc = "ValueError"
  /\ executed[1].outcome.origin = "implementation"
  /\ Len(sent[2]) = 3

(***************************************************************************)
(* The order of dispatch.                                                  *)
(***************************************************************************)
\* the position of the request with this id in a list of requests, 0 if it
\* is not there
PositionIn(calls, id) ==
  IF \E k \in 1..Len(calls) : calls[k].id = id
  THEN CHOOSE k \in 1..Len(calls) : calls[k].id = id
  ELSE 0

\* C23: within a batch the tool calls are dispatched one at a time, in the
\* order in which the assistant turn lists them. Every dispatch takes the
\* first request of the batch not dispatched yet; the tool-result messages
\* that answer an assistant turn stand directly after it, before any later
\* assistant turn, with nothing but tool-result messages between, in the
\* relative order of their requests.
C23_DispatchInOrder ==
  /\ [][ExecuteStep =>
          /\ Len(executed') = Len(executed) + 1
          /\ PositionIn(batch, Latest(executed').id) > 0
          /\ \A k \in 1..Len(batch) :
               WasExecuted(batch[k].id)
                 <=> k < PositionIn(batch, Latest(executed').id)]_vars
  /\ [](\A i \in 1..Len(messages) :
          IsToolResult(messages[i]) =>
            LET a == NearestAssistant(messages, i)
            IN  /\ a > 0
                /\ PositionIn(messages[a].tool_calls, messages[i].tool_call_id) > 0
                /\ \A j \in (a + 1)..(i - 1) :
                     /\ IsToolResult(messages[j])
                     /\ PositionIn(messages[a].tool_calls, messages[j].tool_call_id)
                          < PositionIn(messages[a].tool_calls,
                                       messages[i].tool_call_id))

\* an assistant turn with two requests, followed by their two results in
\* the order of the requests, followed by a later assistant turn
C23_Witness ==
  \E a \in 1..Len(messages) :
    /\ a + 3 <= Len(messages)
    /\ IsAssistant(messages[a])
    /\ Len(messages[a].tool_calls) = 2
    /\ IsToolResult(messages[a + 1])
    /\ IsToolResult(messages[a + 2])
    /\ messages[a + 1].tool_call_id = messages[a].tool_calls[1].id
    /\ messages[a + 2].tool_call_id = messages[a].tool_calls[2].id
    /\ IsAssistant(messages[a + 3])

(***************************************************************************)
(* Counting invocations.                                                   *)
(***************************************************************************)
\* the execute_tool calls that entered an implementation
Invocations == {e \in 1..Len(executed) : executed[e].outcome.invoked}

\* the tool-result messages of the conversation
ToolResults == {i \in 1..Len(messages) : IsToolResult(messages[i])}

\* the tool-call requests the service has issued, from the responses
RequestsIssued ==
  UNION { {<<n, k>> : k \in 1..Len(responses[n].tool_calls.calls)} :
          n \in 1..Len(responses) }

\* C24: a tool implementation is entered only for a request whose name is
\* registered and whose arguments parse, and at most once per request. Over
\* a run the implementations entered are at most as many as the requests
\* issued, and the tool-result messages at most as many as the
\* implementations entered.
C24_InvocationCounts ==
  /\ \A e \in Invocations :
       /\ ~NamesUnknownTool(executed[e].name)
       /\ Parseable(executed[e].arguments)
       /\ \E n \in 1..Len(responses) :
            \E k \in 1..Len(responses[n].tool_calls.calls) :
              responses[n].tool_calls.calls[k] =
                ToolCall(executed[e].id, executed[e].name, executed[e].arguments)
  /\ \A e, f \in Invocations : executed[e].id = executed[f].id => e = f
  /\ toolExecs = Cardinality(Invocations)
  /\ Cardinality(Invocations) <= Cardinality(RequestsIssued)
  /\ Cardinality(ToolResults) <= Cardinality(Invocations)

\* three requests issued, two implementations entered, one result appended
C24_Witness ==
  /\ Cardinality(RequestsIssued) = 3
  /\ Cardinality(Invocations) = 2
  /\ Cardinality(ToolResults) = 1
  /\ \E e \in 1..Len(executed) : NamesUnknownTool(executed[e].name)

(***************************************************************************)
(* Registering a name again.                                               *)
(***************************************************************************)
\* the names a listing shows, in its order
ListedNames(defs) == [i \in 1..Len(defs) |-> defs[i].function.name]

\* this step is a register_tool call for a name registered before
ReRegisterStep ==
  /\ Len(regLog') = Len(regLog) + 1
  /\ Latest(regLog').name \in RegisteredNames

\* C25: registering a name the registry holds changes neither the number
\* nor the order of the names get_tool_definitions lists. The entry stays at
\* the listing position of the first registration of its name; the
\* definition at that position becomes the one of the new descriptor and
\* the definitions at all other positions stay as they were.
C25_ReRegistrationKeepsPosition ==
  /\ [][ReRegisterStep =>
          LET before == get_tool_definitions(tools)
              after == get_tool_definitions(tools')
              tool == Latest(regLog')
          IN  /\ Len(after) = Len(before)
              /\ ListedNames(after) = ListedNames(before)
              /\ \A i \in 1..Len(after) :
                   after[i] = IF before[i].function.name = tool.name
                              THEN DefinitionOf(tool)
                              ELSE before[i]]_vars
  /\ [](listed # << >> =>
          \A i \in 1..Len(listed[1]) :
            Cardinality({regLog[j].name :
                           j \in 1..FirstRegistration(listed[1][i].function.name)})
              = i)

\* search_internet, then summarize_webpage, then search_internet again with
\* another descriptor: the listing shows search_internet first, with the
\* later descriptor
C25_Witness ==
  /\ pc = "REGISTRY"
  /\ Len(regLog) = 3
  /\ regLog[1].name = "search_internet"
  /\ regLog[2].name = "summarize_webpage"
  /\ regLog[3].name = "search_internet"
  /\ regLog[3] # regLog[1]
  /\ listed # << >>
  /\ ListedNames(listed[1]) = <<"search_internet", "summarize_webpage">>
  /\ listed[1][1] = DefinitionOf(regLog[3])

(***************************************************************************)
(* Two interleaved runs.                                                   *)
(***************************************************************************)
\* the for loop of lines 85-99 on the requests of calls from position i on,
\* with no other call of process taking steps: the conversation it leaves
\* and whether an exception left the loop
RECURSIVE DispatchAlone(_, _, _)
DispatchAlone(conv, calls, i) ==
  IF i > Len(calls) THEN [messages |-> conv, failed |-> FALSE]
  ELSE LET outcome == execute_tool(tools, calls[i].function.name,
                                   calls[i].function.arguments, keySet)
       IN  IF ~outcome.raised
           THEN DispatchAlone(Append(conv, ToolMessage(calls[i], outcome.value)),
                              calls, i + 1)
           ELSE IF IsValueError(outcome.exc)
           THEN DispatchAlone(conv, calls, i + 1)
           ELSE [messages |-> conv, failed |-> TRUE]

\* the while loop of lines 69-99 fed with the service's answers resps from
\* the n-th on, with no other call of process taking steps: the
\* conversation it leaves and the value process returns (Unset while the
\* loop waits for the next answer)
RECURSIVE RunAlone(_, _, _)
RunAlone(conv, resps, n) ==
  IF n > Len(resps) THEN [messages |-> conv, returned |-> Unset]
  ELSE IF resps[n].raised THEN [messages |-> conv, returned |-> None]
  ELSE IF PlainAnswer(resps[n])
  THEN [messages |-> conv, returned |-> resps[n].content]
  ELSE LET d == DispatchAlone(Append(conv, AssistantMessage(resps[n])),
                              resps[n].tool_calls.calls, 1)
       IN  IF d.failed THEN [messages |-> d.messages, returned |-> None]
           ELSE RunAlone(d.messages, resps, n + 1)

\* the ids of the requests the service has sent to the run
OwnRequestIds(run) ==
  UNION { {run.responses[n].tool_calls.calls[k].id :
             k \in 1..Len(run.responses[n].tool_calls.calls)} :
          n \in 1..Len(run.responses) }

\* the conversation of the run holds its own seed, then nothing but its own
\* assistant turns and the results of its own requests, and the run stands
\* where it would stand had it run alone on the same answers
Undisturbed(run, tweet) ==
  run.pc # "IDLE" =>
    LET alone == RunAlone(SeedMessages(tweet), run.responses, 1)
    IN  /\ Len(run.messages) >= 2
        /\ SubSeq(run.messages, 1, 2) = SeedMessages(tweet)
        /\ \A i \in 3..Len(run.messages) :
             \/ /\ IsAssistant(run.messages[i])
                /\ \E n \in 1..Len(run.responses) :
                     /\ ~run.responses[n].raised
                     /\ run.messages[i] = AssistantMessage(run.responses[n])
             \/ /\ IsToolResult(run.messages[i])
                /\ run.messages[i].tool_call_id \in OwnRequestIds(run)
                /\ \E e \in 1..Len(run.executed) :
                     /\ run.executed[e].id = run.messages[i].tool_call_id
                     /\ ~run.executed[e].outcome.raised
                     /\ run.executed[e].outcome.value = run.messages[i].content
        /\ \A e \in 1..Len(run.executed) :
             run.executed[e].id \in OwnRequestIds(run)
        /\ run.pc \in {"AWAITING_MODEL", "DONE", "FAILED"} =>
             /\ run.messages = alone.messages
             /\ run.returned = alone.returned
        /\ run.pc = "DISPATCHING_TOOLS" =>
             /\ IsPrefix(run.messages, alone.messages)
             /\ run.returned = Unset

\* C21: two runs of process interleaved in any way on the same agent do
\* not interfere. At every point of every interleaving, each run's
\* conversation holds only its own seed messages, its own assistant turns
\* and the tool-results of its own requests, and each run's conversation
\* and returned value are those of the run alone on the same service
\* answers; the registry they share stays as it was.
C21_InterleavedRunsIndependent ==
  /\ Undisturbed(ThisRun, TweetOf(current))
  /\ Undisturbed(other, TweetOf(3 - current))
  /\ tools = regLog

\* the second run has gone from its seed to its final answer through a
\* tool result while the first run stands in the middle of a batch, one
\* result appended and one request left
C21_Witness ==
  /\ current = 2
  /\ pc = "DONE"
  /\ \E i \in 1..Len(messages) : IsToolResult(messages[i])
  /\ other.pc = "DISPATCHING_TOOLS"
  /\ other.idx = 2
  /\ Len(other.messages) = 4
  /\ IsToolResult(other.messages[4])

====
